---- MODULE Spec2Model ----
(***************************************************************************)
(* Model of GRDC-visualization.py: the one-shot pipeline                   *)
(*   fetch -> parse -> period -> count -> locations -> animate -> save     *)
(*   -> delete scratch directory -> show.                                  *)
(* The table of stations is the input; the aggregation functions are       *)
(* operators computed the way the loops compute them; the animation is a   *)
(* frame sequence stepped by the scheduler of save() and show().           *)
(***************************************************************************)
EXTENDS Integers, Sequences, FiniteSets, TLC

VARIABLES
    pc,            \* position of the script in __main__
    raisedIn,      \* the call whose exception ended the run, or "none"
    dirExists,     \* the scratch directory is on disk
    retrieved,     \* the archive was downloaded and extracted
    videoSaved,    \* ani.save has written the video
    data,          \* the table of stations
    m_start, m_end, period, stations, locations,   \* module globals
    ani,           \* fields stations, locations, period of the animation
    time, space, text,   \* the three drawables
    drawn_artists, \* self._drawn_artists
    frame_seq,     \* frame indices still to be drawn in the current pass
    drawnLog,      \* frame indices _draw_frame was called with in this pass
    lastOp,        \* the last drawing call: "none", "init", "frame"
    passes         \* passes started by show()

vars == <<pc, raisedIn, dirExists, retrieved, videoSaved, data, m_start,
          m_end, period, stations, locations, ani, time, space, text,
          drawn_artists, frame_seq, drawnLog, lastOp, passes>>

-----------------------------------------------------------------------------
(* Bounds of the model *)

MaxStations == 2
YearSpan == 4
MaxPasses == 2

FirstYear == 2000
Years == FirstYear .. (FirstYear + YearSpan - 1)

(* a cell that pd.to_numeric(errors='coerce') turned into a missing value *)
NaN == -1

(* (lat, long) of the sites a station can be at *)
Sites == { [lat |-> 50, long |-> 10], [lat |-> -30, long |-> 120] }

StationRows == { [m_start |-> s, m_end |-> e, lat |-> c.lat, long |-> c.long] :
                   s \in Years \cup {NaN}, e \in Years \cup {NaN}, c \in Sites }

Tables == UNION { [1..n -> StationRows] : n \in 0..MaxStations }

-----------------------------------------------------------------------------
(* Values that stand for "not yet computed" and for a raised exception *)

None == [none |-> TRUE]
Raised == [raised |-> TRUE]

RECURSIVE SeqMin(_), SeqMax(_)
SeqMin(s) == IF Len(s) = 1 THEN s[1]
             ELSE LET m == SeqMin(Tail(s)) IN IF s[1] < m THEN s[1] ELSE m
SeqMax(s) == IF Len(s) = 1 THEN s[1]
             ELSE LET m == SeqMax(Tail(s)) IN IF s[1] > m THEN s[1] ELSE m

IsNotNaN(v) == v # NaN

(* np.min / np.max of a pandas column: missing values are skipped, and the
   result is NaN when nothing is left *)
ColMin(col) == LET present == SelectSeq(col, IsNotNaN)
               IN IF present = <<>> THEN NaN ELSE SeqMin(present)
ColMax(col) == LET present == SelectSeq(col, IsNotNaN)
               IN IF present = <<>> THEN NaN ELSE SeqMax(present)

Column(d, name) == [k \in 1..Len(d) |-> d[k][name]]

(* variants of arange: an end-inclusive range; an empty range for NaN *)
arange_inclusive(lo, hi) ==
    IF lo = NaN \/ hi = NaN THEN Raised
    ELSE [raised |-> FALSE,
          val |-> [k \in 1..(IF hi >= lo THEN hi - lo + 1 ELSE 0) |-> lo + k - 1]]

(* np.arange(lo, hi).astype(int): lo, lo+1, ..., hi-1, empty when hi <= lo;
   raises when a bound is NaN *)
arange(lo, hi) ==
    IF lo = NaN \/ hi = NaN THEN Raised
    ELSE [raised |-> FALSE,
          val |-> [k \in 1..(IF hi > lo THEN hi - lo ELSE 0) |-> lo + k - 1]]

(* variant of get_data_period: an empty table gives an empty period *)
get_data_period_noraise(d) ==
    LET lo == ColMin(Column(d, "m_start"))
        hi == ColMax(Column(d, "m_end"))
        p  == arange(lo, hi)
    IN IF p.raised
       THEN [raised |-> FALSE, m_start |-> lo, m_end |-> hi, period |-> <<>>]
       ELSE [raised |-> FALSE, m_start |-> lo, m_end |-> hi, period |-> p.val]

get_data_period(d) ==
    LET lo == ColMin(Column(d, "m_start"))
        hi == ColMax(Column(d, "m_end"))
        p  == arange(lo, hi)
    IN IF p.raised THEN Raised
       ELSE [raised |-> FALSE, m_start |-> lo, m_end |-> hi, period |-> p.val]

(* year >= m_start and year <= m_end; a comparison with NaN is false *)
StartsBy(year, row) == row.m_start # NaN /\ year >= row.m_start
(* variant of the end test: year < m_end *)
EndsAfter_exclusive(year, row) == row.m_end # NaN /\ year < row.m_end
EndsAfter(year, row) == row.m_end # NaN /\ year <= row.m_end

(* inner loop of count_stations over the stations 1..n *)
RECURSIVE CountUpTo(_, _, _)
CountUpTo(d, year, n) ==
    IF n = 0 THEN 0
    ELSE CountUpTo(d, year, n - 1)
         + (IF StartsBy(year, d[n]) /\ EndsAfter(year, d[n]) THEN 1 ELSE 0)

(* variant of count_stations: the scan stops one station short *)
count_stations_short(d, p) ==
    [k \in 1..Len(p) |-> CountUpTo(d, p[k], IF Len(d) > 0 THEN Len(d) - 1 ELSE 0)]

count_stations(d, p) == [k \in 1..Len(p) |-> CountUpTo(d, p[k], Len(d))]

(* inner loop of get_station_locations: the list ls of (lon, lat) *)
RECURSIVE CollectUpTo(_, _, _)
CollectUpTo(d, year, n) ==
    IF n = 0 THEN <<>>
    ELSE LET ls == CollectUpTo(d, year, n - 1)
         IN IF StartsBy(year, d[n]) /\ EndsAfter(year, d[n])
            THEN Append(ls, <<d[n].long, d[n].lat>>)
            ELSE ls

SeqRange(s) == { s[k] : k \in 1..Len(s) }

get_station_locations(d, p) ==
    [year \in SeqRange(p) |-> CollectUpTo(d, year, Len(d))]

-----------------------------------------------------------------------------
(* The drawables of SubplotAnimation *)

EmptyLine == [x |-> <<>>, y |-> <<>>]

(* s[:i] for 0 <= i <= len(s) *)
Prefix(s, i) == SubSeq(s, 1, i)

(* self.time.set_data(self.period[:i], self.stations[:i]) *)
FrameTime(a, i) == [x |-> Prefix(a.period, i), y |-> Prefix(a.stations, i)]

(* year = self.period[i], for the 0-based frame index i *)
FrameYear(a, i) == a.period[i + 1]

(* self.locations[year][:, 0] and [:, 1]: a KeyError when the year is not a
   key, an IndexError when the array of the year is the 1-d empty array *)
FrameSpace(a, i) ==
    LET year == FrameYear(a, i)
    IN IF year \notin DOMAIN a.locations THEN Raised
       ELSE LET arr == a.locations[year]
            IN IF arr = <<>> THEN Raised
               ELSE [raised |-> FALSE,
                     x |-> [k \in 1..Len(arr) |-> arr[k][1]],
                     y |-> [k \in 1..Len(arr) |-> arr[k][2]]]

(* str(year) *)
FrameText(a, i) == ToString(FrameYear(a, i))

(* iter(range(self.period.size)) *)
new_frame_seq(a) == [k \in 1..Len(a.period) |-> k - 1]

Drawables == [time |-> time, space |-> space, text |-> text,
              drawn |-> drawn_artists]

(* variant of _init_draw: the point cloud is not emptied *)
init_draw_keeps_space(d) == [time |-> EmptyLine, space |-> d.space,
                             text |-> "", drawn |-> d.drawn]

(* _init_draw: empties the line, the point cloud and the label *)
init_draw(d) == [time |-> EmptyLine, space |-> EmptyLine, text |-> "",
                 drawn |-> d.drawn]

(* _draw_frame(i): the line is set first; the point cloud, the label and
   _drawn_artists are set only if reading the coordinates did not raise *)
draw_frame(a, d, i) ==
    LET sp == FrameSpace(a, i)
    IN IF sp.raised
       THEN [raised |-> TRUE, time |-> FrameTime(a, i), space |-> d.space,
             text |-> d.text, drawn |-> d.drawn]
       ELSE [raised |-> FALSE, time |-> FrameTime(a, i),
             space |-> [x |-> sp.x, y |-> sp.y],
             text |-> FrameText(a, i),
             drawn |-> <<"time", "space", "text">>]

-----------------------------------------------------------------------------
Init ==
    /\ pc = "start"
    /\ raisedIn = "none"
    /\ dirExists \in BOOLEAN
    /\ retrieved = FALSE
    /\ videoSaved = FALSE
    /\ data = None
    /\ m_start = None
    /\ m_end = None
    /\ period = None
    /\ stations = None
    /\ locations = None
    /\ ani = None
    /\ time = None
    /\ space = None
    /\ text = None
    /\ drawn_artists = None
    /\ frame_seq = <<>>
    /\ drawnLog = <<>>
    /\ lastOp = "none"
    /\ passes = 0

aniVars == <<ani, time, space, text, drawn_artists, frame_seq, drawnLog,
             lastOp, passes>>
aggVars == <<m_start, m_end, period, stations, locations>>

(* extract_from_url: a missing directory is made first, and os.makedirs can
   itself raise (no directory on disk then); after that the download and
   the extraction succeed or raise *)
ExtractFromUrl ==
    /\ pc = "start"
    /\ \/ /\ ~dirExists
          /\ dirExists' = FALSE
          /\ retrieved' = FALSE
          /\ pc' = "failed"
          /\ raisedIn' = "extract_from_url"
       \/ /\ dirExists' = TRUE
          /\ \E ok \in BOOLEAN :
               /\ retrieved' = ok
               /\ pc' = IF ok THEN "fetched" ELSE "failed"
               /\ raisedIn' = IF ok THEN "none" ELSE "extract_from_url"
    /\ UNCHANGED <<videoSaved, data, aggVars, aniVars>>

(* parse_grdc_file: returns the table of the spreadsheet, or raises (no
   matching file, no such sheet, unparseable dates) *)
ParseGrdcFile ==
    /\ pc = "fetched"
    /\ \/ \E t \in Tables : data' = t /\ pc' = "parsed" /\ raisedIn' = raisedIn
       \/ data' = data /\ pc' = "failed" /\ raisedIn' = "parse_grdc_file"
    /\ UNCHANGED <<dirExists, retrieved, videoSaved, aggVars, aniVars>>

GetDataPeriod ==
    /\ pc = "parsed"
    /\ LET r == get_data_period(data)
       IN IF r.raised
          THEN /\ pc' = "failed"
               /\ raisedIn' = "get_data_period"
               /\ UNCHANGED <<m_start, m_end, period>>
          ELSE /\ pc' = "period"
               /\ raisedIn' = raisedIn
               /\ m_start' = r.m_start
               /\ m_end' = r.m_end
               /\ period' = r.period
    /\ UNCHANGED <<dirExists, retrieved, videoSaved, data, stations,
                   locations, aniVars>>

CountStations ==
    /\ pc = "period"
    /\ stations' = count_stations(data, period)
    /\ pc' = "counted"
    /\ UNCHANGED <<raisedIn, dirExists, retrieved, videoSaved, data, m_start, m_end,
                   period, locations, aniVars>>

GetStationLocations ==
    /\ pc = "counted"
    /\ locations' = get_station_locations(data, period)
    /\ pc' = "located"
    /\ UNCHANGED <<raisedIn, dirExists, retrieved, videoSaved, data, m_start, m_end,
                   period, stations, aniVars>>

pipeVars == <<retrieved, data, aggVars>>

(* SubplotAnimation.__init__: keeps the three inputs, makes the drawables
   empty; Animation.__init__ takes a first frame sequence *)
Construct ==
    /\ pc = "located"
    /\ ani' = [stations |-> stations, locations |-> locations,
               period |-> period]
    /\ time' = EmptyLine
    /\ space' = EmptyLine
    /\ text' = ""
    /\ drawn_artists' = <<>>
    /\ frame_seq' = new_frame_seq(ani')
    /\ drawnLog' = <<>>
    /\ pc' = "constructed"
    /\ UNCHANGED <<raisedIn, dirExists, videoSaved, pipeVars, lastOp, passes>>

(* a pass begins: _init_draw, then a fresh frame sequence *)
BeginPass ==
    LET d == init_draw(Drawables)
    IN /\ time' = d.time
       /\ space' = d.space
       /\ text' = d.text
       /\ drawn_artists' = d.drawn
       /\ frame_seq' = new_frame_seq(ani)
       /\ drawnLog' = <<>>
       /\ lastOp' = "init"

(* ani.save(...): start of the pass that writes the video *)
SaveStart ==
    /\ pc = "constructed"
    /\ BeginPass
    /\ pc' = "saving"
    /\ UNCHANGED <<raisedIn, dirExists, videoSaved, pipeVars, ani, passes>>

(* the scheduler takes the next frame index and calls _draw_frame with it;
   an exception in _draw_frame ends the run *)
Step ==
    /\ pc \in {"saving", "showing"}
    /\ frame_seq # <<>>
    /\ LET i == Head(frame_seq)
           d == draw_frame(ani, Drawables, i)
       IN /\ time' = d.time
          /\ space' = d.space
          /\ text' = d.text
          /\ drawn_artists' = d.drawn
          /\ drawnLog' = Append(drawnLog, i)
          /\ frame_seq' = Tail(frame_seq)
          /\ lastOp' = "frame"
          /\ pc' = IF d.raised THEN "failed" ELSE pc
          /\ raisedIn' = IF d.raised THEN "_draw_frame" ELSE raisedIn
    /\ UNCHANGED <<dirExists, videoSaved, pipeVars, ani, passes>>

(* ani.save(...): the frame sequence is exhausted, the video is written *)
SaveFinish ==
    /\ pc = "saving"
    /\ frame_seq = <<>>
    /\ videoSaved' = TRUE
    /\ pc' = "saved"
    /\ UNCHANGED <<raisedIn, dirExists, pipeVars, aniVars>>

(* variant of the cleanup: the directory is removed before ani.save *)
RemoveScratch_before_save ==
    /\ pc = "constructed"
    /\ dirExists' = FALSE
    /\ pc' = "cleaned"
    /\ UNCHANGED <<raisedIn, videoSaved, pipeVars, aniVars>>

(* shutil.rmtree(path) *)
RemoveScratch ==
    /\ pc = "saved"
    /\ dirExists' = FALSE
    /\ pc' = "cleaned"
    /\ UNCHANGED <<raisedIn, videoSaved, pipeVars, aniVars>>

(* plt.show(): the first pass on screen *)
ShowStart ==
    /\ pc = "cleaned"
    /\ BeginPass
    /\ passes' = 1
    /\ pc' = "showing"
    /\ UNCHANGED <<raisedIn, dirExists, videoSaved, pipeVars, ani>>

(* plt.show(): the sequence is exhausted and the animation repeats *)
ShowRepeat ==
    /\ pc = "showing"
    /\ frame_seq = <<>>
    /\ passes < MaxPasses
    /\ BeginPass
    /\ passes' = passes + 1
    /\ UNCHANGED <<pc, raisedIn, dirExists, videoSaved, pipeVars, ani>>

(* plt.show(): the window is closed, at any point of a pass, and the
   script ends *)
ShowClose ==
    /\ pc = "showing"
    /\ pc' = "done"
    /\ UNCHANGED <<raisedIn, dirExists, videoSaved, pipeVars, aniVars>>

Next == ExtractFromUrl \/ ParseGrdcFile \/ GetDataPeriod \/ CountStations
        \/ GetStationLocations \/ Construct \/ SaveStart \/ Step
        \/ SaveFinish \/ RemoveScratch \/ ShowStart \/ ShowRepeat
        \/ ShowClose

Spec == Init /\ [][Next]_vars

-----------------------------------------------------------------------------
(* How far the run got: the position, or the position of the call that
   raised *)

PcOrder == <<"start", "fetched", "parsed", "period", "counted", "located",
             "constructed", "saving", "saved", "cleaned", "showing", "done">>

Rank(p) == CHOOSE k \in 1..Len(PcOrder) : PcOrder[k] = p

At == IF pc # "failed" THEN pc
      ELSE IF raisedIn = "extract_from_url" THEN "start"
      ELSE IF raisedIn = "parse_grdc_file" THEN "fetched"
      ELSE IF raisedIn = "get_data_period" THEN "parsed"
      ELSE "saving"

Reached(p) == Rank(At) >= Rank(p)

(* a station's range covers the year Y, as the spec words it *)
Covers(row, Y) == row.m_start # NaN /\ row.m_end # NaN
                  /\ row.m_start <= Y /\ Y <= row.m_end

StartYears == { data[n].m_start : n \in 1..Len(data) } \ {NaN}
EndYears == { data[n].m_end : n \in 1..Len(data) } \ {NaN}
MinOf(S) == CHOOSE y \in S : \A z \in S : y <= z
MaxOf(S) == CHOOSE y \in S : \A z \in S : y >= z

Last(s) == s[Len(s)]

-----------------------------------------------------------------------------
(* C1: for every year Y of the period, the count at the position of Y equals
   the number of coordinate pairs stored under key Y. *)
C1_CountsAgreeWithLocations ==
    Reached("located") =>
        /\ DOMAIN locations = SeqRange(period)
        /\ \A k \in 1..Len(period) :
             stations[k] = Len(locations[period[k]])

C1_Witness ==
    /\ Reached("located")
    /\ \E k \in 1..Len(period) : stations[k] >= 2
    /\ \E k \in 1..Len(period) : stations[k] < Len(data)

(* C2: for every year Y of the period, the count at the position of Y is the
   number of stations with start <= Y <= end, both bounds inclusive. *)
C2_CountIsNumberOfCoveringStations ==
    Reached("counted") =>
        /\ Len(stations) = Len(period)
        /\ \A k \in 1..Len(period) :
             stations[k] = Cardinality({ n \in 1..Len(data) :
                                           Covers(data[n], period[k]) })

(* two overlapping ranges as in the scenario: a year with count 2, a year
   with count 1, and the last end year, which has no position in the period *)
C2_Witness ==
    /\ Reached("counted")
    /\ Len(data) = 2
    /\ \E k \in 1..Len(period) : stations[k] = 2
    /\ \E k \in 1..Len(period) : stations[k] = 1
    /\ m_end \notin SeqRange(period)
    /\ \E n \in 1..Len(data) : Covers(data[n], m_end)

(* C3, as claimed: with at least one station the period is contiguous and
   increasing, its smallest element is the minimum start year and its
   largest the maximum end year minus 1. *)
C3_Original ==
    (Reached("period") /\ Len(data) >= 1) =>
        /\ Len(period) >= 1
        /\ \A k \in 2..Len(period) : period[k] = period[k - 1] + 1
        /\ period[1] = MinOf(StartYears)
        /\ Last(period) = MaxOf(EndYears) - 1

(* C3, amended: whenever get_data_period returns, the period is the
   contiguous increasing sequence of the years Y with
   min start <= Y < max end; it is empty when min start >= max end, and
   otherwise runs from min start to max end - 1. *)
C3_PeriodIsEndExclusiveRange ==
    Reached("period") =>
        /\ StartYears # {} /\ EndYears # {}
        /\ \A k \in 2..Len(period) : period[k] = period[k - 1] + 1
        /\ SeqRange(period) =
             { Y \in MinOf(StartYears)..MaxOf(EndYears) : Y < MaxOf(EndYears) }
        /\ Len(period) >= 1 =>
             /\ period[1] = MinOf(StartYears)
             /\ Last(period) = MaxOf(EndYears) - 1
        /\ MinOf(StartYears) >= MaxOf(EndYears) => period = <<>>

C3_Witness ==
    /\ Reached("period")
    /\ Len(period) >= 2
    /\ Cardinality(StartYears) >= 2
    /\ period[1] = MinOf(StartYears)

(* C4, as claimed: every year that some station's range covers is a year of
   the period, so every station with start <= end is active in some year of
   the period. *)
C4_PeriodSpansEveryCoveredYear ==
    Reached("period") =>
        /\ \A n \in 1..Len(data) : \A Y \in Years :
             Covers(data[n], Y) => Y \in SeqRange(period)
        /\ \A n \in 1..Len(data) :
             (\E Y \in Years : Covers(data[n], Y)) =>
                 \E k \in 1..Len(period) : Covers(data[n], period[k])

(* C5: with no stations get_data_period raises; the run ends there, before
   counting, collection and rendering. *)
C5_EmptyTableRaises ==
    (Reached("parsed") /\ Len(data) = 0 /\ pc # "parsed") =>
        /\ pc = "failed"
        /\ raisedIn = "get_data_period"
        /\ period = None /\ stations = None /\ locations = None
        /\ ani = None /\ ~videoSaved

C5_Witness ==
    /\ pc = "failed"
    /\ raisedIn = "get_data_period"
    /\ Len(data) = 0

(* C6: after a successful retrieval the scratch directory is deleted only
   after the video was saved, it is deleted once all stages completed, and
   a run that failed ends with the directory still there. *)
C6_CleanupOnlyAfterSave ==
    retrieved =>
        /\ ~dirExists => videoSaved
        /\ pc \in {"cleaned", "showing", "done"} => ~dirExists
        /\ pc = "failed" => dirExists

C6_Witness ==
    /\ retrieved
    /\ pc = "cleaned"
    /\ videoSaved
    /\ ~dirExists

(* C7, as claimed: in a pass the frames 0 .. N-1 are drawn once each in
   increasing order, and the pass ends only after frame N-1. *)
C7_EveryFrameDrawnInOrder ==
    Reached("saving") =>
        /\ \A k \in 1..Len(drawnLog) : drawnLog[k] = k - 1
        /\ Len(drawnLog) <= Len(ani.period)
        /\ (pc = "failed" \/ (pc \in {"saving", "showing"} /\ frame_seq = <<>>)
            \/ pc = "saved")
             => drawnLog = new_frame_seq(ani)

(* C8, as claimed: after frame i the line holds the points of the period up
   to and including year period[i], the point cloud that year's coordinates
   and the label that year. *)
C8_DrawablesShowSameYear ==
    (Reached("saving") /\ lastOp = "frame" /\ raisedIn = "none") =>
        LET i == Last(drawnLog)
            year == ani.period[i + 1]
        IN /\ time = [x |-> SubSeq(ani.period, 1, i + 1),
                      y |-> SubSeq(ani.stations, 1, i + 1)]
           /\ Last(time.x) = year
           /\ space.x = [k \in 1..Len(ani.locations[year]) |->
                           ani.locations[year][k][1]]
           /\ space.y = [k \in 1..Len(ani.locations[year]) |->
                           ani.locations[year][k][2]]
           /\ text = ToString(year)
           /\ (i + 1 = Len(ani.period) => Len(time.x) = Len(ani.period))

(* C9, as claimed: every frame completes without error and shows the
   coordinates stored for its year, a year without active station included;
   every year of the period is a key of the locations. *)
C9_EveryFrameCompletes ==
    Reached("saving") =>
        /\ raisedIn # "_draw_frame"
        /\ SeqRange(ani.period) \subseteq DOMAIN ani.locations
        /\ lastOp = "frame" =>
             LET year == ani.period[Last(drawnLog) + 1]
             IN /\ Len(space.x) = Len(ani.locations[year])
                /\ \A k \in 1..Len(space.x) :
                     <<space.x[k], space.y[k]>> = ani.locations[year][k]

(* C10: the initial draw and the frames leave the counts, the locations and
   the period of the animation unchanged, and the initial draw leaves the
   three drawables empty whatever was drawn before. *)
C10_DrawingTouchesOnlyDrawables ==
    [][ /\ Reached("constructed") =>
             /\ ani' = ani
             /\ stations' = stations /\ locations' = locations
             /\ period' = period /\ data' = data
        /\ (Reached("saving") /\ lastOp' = "init") =>
             (time' = EmptyLine /\ space' = EmptyLine /\ text' = "")
      ]_vars

C10_Witness ==
    /\ lastOp = "init"
    /\ passes = 2
    /\ Len(ani.period) >= 2
    /\ space = EmptyLine
====
